---- MODULE Spec2Model ----
(***************************************************************************)
(* A model of CubiCal's diagonal phase-only slope gain machine             *)
(* (cubical/machines/slope_machine.py, class PhaseSlopeGains) and of its   *)
(* helper _normalize.                                                      *)
(*                                                                         *)
(* Real numbers are exact rationals <<n, d>> (d > 0, lowest terms); the    *)
(* IEEE results of a division by zero are <<0,0>> (nan), <<1,0>> (+inf)    *)
(* and <<-1,0>> (-inf).  Floating-point rounding is not modelled.          *)
(* Complex numbers are kept in polar form [mag, arg] with arg in radians:  *)
(* for a rational arg, exp(i*arg) = 1 exactly when arg = 0.                *)
(* Tensors are nested arrays, t[i1][i2]..., indexed from 0 in the axis      *)
(* order of the source.  Python's None is the empty tuple.                 *)
(***************************************************************************)
EXTENDS Integers, Sequences, FiniteSets, TLC

\* ------------------------------------------------------------------ bounds
\* Tensor extents of the chunk handed to the machine.
n_dir == 2
n_tim == 2
n_fre == 3
n_ant == 3
\* Solution interval widths (samples per interval).
t_int == 2
f_int == 2
\* Number of API calls made on a constructed machine.
MaxOps == 2
\* _normalize is applied to arrays of at most MaxLen coordinates in 0..MaxCoord.
MaxLen == 3
MaxCoord == 4

\* ------------------------------------------------------- program constants
\* Correlations: the (0,1),(0,1) diagonal picks of export/import.
n_cor == 2
\* ref_ant is None.
NoRefAnt == -1

None == <<>>

\* ------------------------------------------------------------- arithmetic
Abs(x) == IF x < 0 THEN -x ELSE x

Sign(x) == IF x < 0 THEN -1 ELSE IF x > 0 THEN 1 ELSE 0

RECURSIVE GCD(_, _)
GCD(a, b) == IF b = 0 THEN a ELSE GCD(b, a % b)

\* The rational n/d in lowest terms; a zero denominator gives nan or +-inf.
RNorm(n, d) ==
    IF d = 0 THEN <<Sign(n), 0>>
    ELSE LET g == GCD(Abs(n), Abs(d))
             s == IF d < 0 THEN -1 ELSE 1
         IN  <<(s * n) \div g, (s * d) \div g>>

RatOf(i) == <<i, 1>>
RZero == RatOf(0)
ROne == RatOf(1)
RNaN == <<0, 0>>
RHalf == <<1, 2>>

IsFinite(a) == a[2] # 0

RAdd(a, b) ==
    IF IsFinite(a) /\ IsFinite(b) THEN RNorm(a[1] * b[2] + b[1] * a[2], a[2] * b[2])
    ELSE IF a = RNaN \/ b = RNaN THEN RNaN
    ELSE IF ~IsFinite(a) /\ ~IsFinite(b) THEN (IF a = b THEN a ELSE RNaN)
    ELSE IF IsFinite(a) THEN b ELSE a

RNeg(a) == <<-a[1], a[2]>>

RSub(a, b) == RAdd(a, RNeg(b))

RMul(a, b) ==
    IF IsFinite(a) /\ IsFinite(b) THEN RNorm(a[1] * b[1], a[2] * b[2])
    ELSE <<Sign(a[1]) * Sign(b[1]), 0>>

RDiv(a, b) ==
    IF IsFinite(a) /\ IsFinite(b) THEN RNorm(a[1] * b[2], a[2] * b[1])
    ELSE RNaN

\* Square root of a rational whose numerator and denominator are squares.
ISqrt(n) == CHOOSE r \in 0..n : r * r = n

RSqrt(a) == <<ISqrt(a[1]), ISqrt(a[2])>>

\* Complex numbers in polar form.
CZero == [mag |-> RZero, arg |-> RZero]
COne == [mag |-> ROne, arg |-> RZero]

\* exp(1j * phi)
CExpI(phi) == IF IsFinite(phi) THEN [mag |-> ROne, arg |-> phi]
              ELSE [mag |-> RNaN, arg |-> RNaN]

CMul(x, y) ==
    LET m == RMul(x.mag, y.mag)
    IN  IF m = RZero THEN CZero ELSE [mag |-> m, arg |-> RAdd(x.arg, y.arg)]

CConj(x) == [mag |-> x.mag, arg |-> RNeg(x.arg)]

\* _normalize dividing by the last coordinate instead of the range.
_normalize_ByLast(x) ==
    IF Len(x) > 1
    THEN [i \in 1..Len(x) |-> RDiv(RSub(x[i], x[1]), x[Len(x)])]
    ELSE IF Len(x) = 1 THEN <<RZero>>
    ELSE x

\* -------------------------------------------------------------- _normalize
\* Helper function: normalizes array to [0,1] interval.  x is a sequence of
\* real coordinates; the result has numpy's elementwise division.
_normalize(x) ==
    IF Len(x) > 1
    THEN [i \in 1..Len(x) |-> RDiv(RSub(x[i], x[1]), RSub(x[Len(x)], x[1]))]
    ELSE IF Len(x) = 1 THEN <<RZero>>
    ELSE x

\* ------------------------------------------------------------ index sets
Dirs == 0..(n_dir - 1)
Tims == 0..(n_tim - 1)
Fres == 0..(n_fre - 1)
Ants == 0..(n_ant - 1)
Cors == 0..(n_cor - 1)

\* Number of solution intervals along each axis (ceiling division).
n_timint == (n_tim + t_int - 1) \div t_int
n_freint == (n_fre + f_int - 1) \div f_int

TInts == 0..(n_timint - 1)
FInts == 0..(n_freint - 1)

\* The array x with all its entries evaluated, once (a function constructor
\* is otherwise evaluated entry by entry at each use).
Array(x) == CHOOSE y \in {x} : y = y

\* Arrays of the shapes of the source, filled entry by entry.
\* (n_dir, n_timint, n_freint, n_ant, n, n_cor, n_cor): parameters, JHR, JHJ.
ParamTensor(n, F(_, _, _, _, _, _, _)) ==
    [d \in Dirs |-> [ti \in TInts |-> [fi \in FInts |-> [a \in Ants |->
        [p \in 0..(n - 1) |-> [c1 \in Cors |-> [c2 \in Cors |->
            F(d, ti, fi, a, p, c1, c2)]]]]]]]

\* (n_dir, n_tim, n_fre, n_ant, n_cor, n_cor): gains.
GainTensor(F(_, _, _, _, _, _)) ==
    [d \in Dirs |-> [t \in Tims |-> [f \in Fres |-> [a \in Ants |->
        [c1 \in Cors |-> [c2 \in Cors |-> F(d, t, f, a, c1, c2)]]]]]]

\* (n_dir, n_timint, n_freint, n_ant, n, n_cor): posterior slope errors.
ErrTensor(n, F(_, _, _, _, _, _)) ==
    [d \in Dirs |-> [ti \in TInts |-> [fi \in FInts |-> [a \in Ants |->
        [p \in 0..(n - 1) |-> [c \in Cors |-> F(d, ti, fi, a, p, c)]]]]]]

\* (n_dir, n_timint, n_freint, n_ant, n_cor): one exported or imported solution.
SolTensor(F(_, _, _, _, _)) ==
    [d \in Dirs |-> [ti \in TInts |-> [fi \in FInts |-> [a \in Ants |->
        [c \in Cors |-> F(d, ti, fi, a, c)]]]]]

\* The raw time and frequency coordinates of the chunk (strictly increasing).
ChunkTimes == [i \in 1..n_tim |-> RatOf(10 * i)]
ChunkFreqs == [i \in 1..n_fre |-> RatOf(i * i)]

SlopeTypes == {"tf-plane", "f-slope", "t-slope"}

VARIABLES
    status,                 \* "new", "ready" or "failed": outcome of __init__
    slope_type,             \* self.slope_type
    n_param,                \* self.n_param
    slope_params,           \* self.slope_params
    posterior_slope_error,  \* self.posterior_slope_error
    posterior_gain_error,   \* self.posterior_gain_error
    chunk_ts,               \* self.chunk_ts
    chunk_fs,               \* self.chunk_fs
    labels,                 \* self._labels
    gains,                  \* self.gains
    jhjinv,                 \* self.jhjinv
    ref_ant,                \* self.ref_ant
    fix_directions,         \* self.fix_directions
    iters,                  \* self.iters
    overlap_copy,           \* whether NumPy copies overlapping ufunc operands
    nops,                   \* number of calls made so far
    ret,                    \* the last call: its arguments, locals and result
    norm_in,                \* argument of a _normalize call
    norm_out,               \* its result
    db_objs,                \* the SimpleParameterDB objects: created, loaded
    db_disk                 \* the database file on disk

machine == <<status, slope_type, n_param, slope_params, posterior_slope_error,
             posterior_gain_error, chunk_ts, chunk_fs, labels, gains, jhjinv,
             ref_ant, fix_directions, iters, overlap_copy>>

vars == <<machine, nops, ret, norm_in, norm_out, db_objs, db_disk>>

\* --------------------------------------------------------------- kernels
\* The label map with phase sharing the component of rate in the tf-plane.
LabelsOf_SharedIndex(type) ==
    IF type = "tf-plane" THEN [phase |-> 1, delay |-> 0, rate |-> 1]
    ELSE IF type = "f-slope" THEN [phase |-> 1, delay |-> 0]
    ELSE [phase |-> 1, rate |-> 0]

\* The label map of a slope type (lines 67-75).
LabelsOf(type) ==
    IF type = "tf-plane" THEN [phase |-> 2, delay |-> 0, rate |-> 1]
    ELSE IF type = "f-slope" THEN [phase |-> 1, delay |-> 0]
    ELSE [phase |-> 1, rate |-> 0]

\* The slope basis: the coefficient that multiplies a labelled component at
\* sample (t, f) of the normalized grids.
Basis(label, ts, fs, t, f) ==
    IF label = "delay" THEN fs[f + 1]
    ELSE IF label = "rate" THEN ts[t + 1]
    ELSE ROne

\* The phase of antenna a in direction d at sample (t, f), correlation c.
PhaseAt(P, lab, ts, fs, d, t, f, a, c) ==
    LET Term(l) ==
            IF l \in DOMAIN lab
            THEN RMul(P[d][t \div t_int][f \div f_int][a][lab[l]][c][c],
                      Basis(l, ts, fs, t, f))
            ELSE RZero
    IN  RAdd(RAdd(Term("delay"), Term("rate")), Term("phase"))

\* cyslope.cyconstruct_gains: the gain tensor of a parameter tensor.
cyconstruct_gains(P, lab, ts, fs) ==
    GainTensor(LAMBDA d, t, f, a, c1, c2 :
        IF c1 = c2 THEN CExpI(PhaseAt(P, lab, ts, fs, d, t, f, a, c1)) ELSE CZero)

\* Position of block (p, q) in the flattened symmetric block layout of JHJ.
BlockOf(np, p, q) ==
    LET lo == IF p < q THEN p ELSE q
        hi == IF p < q THEN q ELSE p
    IN  lo * np - ((lo * (lo - 1)) \div 2) + (hi - lo)

\* Number of blocks of the layout: 6 for tf-plane, 3 otherwise.
blocks_per_inverse(type) == IF type = "tf-plane" THEN 6 ELSE 3

RECURSIVE RSum(_, _)
\* f[0] + ... + f[n-1]
RSum(f, n) == IF n = 0 THEN RZero ELSE RAdd(RSum(f, n - 1), f[n - 1])

\* cyslope.cycompute_update: update = JHJinv . JHR on the diagonal correlations.
cycompute_update(jhr, jhji, np) ==
    ParamTensor(np, LAMBDA d, ti, fi, a, p, c1, c2 :
        IF c1 = c2
        THEN RSum([q \in 0..(np - 1) |->
                    RMul(jhji[d][ti][fi][a][BlockOf(np, p, q)][c1][c1],
                         jhr[d][ti][fi][a][q][c1][c1])], np)
        ELSE RZero)

\* ---------------------------------------------------------------- inputs
\* JHR tensors as the Jacobian kernels return them: every entry distinct.
JhrInput(k, np) ==
    ParamTensor(np, LAMBDA d, ti, fi, a, p, c1, c2 :
        IF c1 = c2
        THEN RatOf((IF k = 1 THEN 1 ELSE -2) * (1 + a + 3 * p + c1) + d - fi)
        ELSE RZero)

\* JHJ-inverse tensors as cycompute_jhjinv returns them.  The variances on the
\* diagonal blocks are squares whose sum is a square, so that the posterior
\* errors are rational.
JhjinvInput(k, type) ==
    LET np == IF type = "tf-plane" THEN 3 ELSE 2
        var == IF np = 3 THEN <<1, 4, 4>> ELSE <<9, 16>>
    IN  ParamTensor(blocks_per_inverse(type), LAMBDA d, ti, fi, a, b, c1, c2 :
            IF c1 # c2 THEN RZero
            ELSE IF \E p \in 0..(np - 1) : b = BlockOf(np, p, p)
                 THEN RatOf(k * k * var[(CHOOSE p \in 0..(np - 1) : b = BlockOf(np, p, p)) + 1])
                 ELSE RatOf(k - 1))

n_mod == 1
Mods == 0..(n_mod - 1)

\* (n_mod, n_tim, n_fre, n_ant, n_ant, n_cor, n_cor): visibilities.
VisTensor(F(_, _, _, _, _, _, _)) ==
    [m \in Mods |-> [t \in Tims |-> [f \in Fres |-> [p \in Ants |-> [q \in Ants |->
        [c1 \in Cors |-> [c2 \in Cors |-> F(m, t, f, p, q, c1, c2)]]]]]]]

\* Observed and model visibilities of the chunk.
ObserInput ==
    VisTensor(LAMBDA m, t, f, p, q, c1, c2 :
        [mag |-> RatOf(1 + p), arg |-> RNorm(q - p + c1, 3)])
ModelInput ==
    [d \in Dirs |-> VisTensor(LAMBDA m, t, f, p, q, c1, c2 :
        [mag |-> RatOf(1 + d + q), arg |-> RNorm(c1 - q + c2 + f, 2)])]

\* A solution array of a table: one value per (dir, timint, freint, ant, corr).
SolValue(k) == SolTensor(LAMBDA d, ti, fi, a, c : RNorm(k + 4 * a + 2 * d + c - fi, 2))

\* Solution tables handed to import_solutions.
SolDicts ==
    { [gain |-> None],
      [phase |-> SolValue(1)],
      [phase |-> None, delay |-> SolValue(5)],
      [delay |-> SolValue(5), rate |-> SolValue(9)],
      [phase |-> SolValue(1), delay |-> SolValue(5), rate |-> SolValue(9)] }

\* soldict.get(label)
DictGet(dict, label) == IF label \in DOMAIN dict THEN dict[label] ELSE None

\* ------------------------------------------------------------ the machine
Init ==
    /\ status = "new"
    /\ slope_type = ""
    /\ n_param = 0
    /\ slope_params = None
    /\ posterior_slope_error = None
    /\ posterior_gain_error = None
    /\ chunk_ts = None
    /\ chunk_fs = None
    /\ labels = None
    /\ gains = None
    /\ jhjinv = None
    /\ ref_ant = NoRefAnt
    /\ fix_directions = {}
    /\ iters = 0
    /\ overlap_copy \in BOOLEAN
    /\ nops = 0
    /\ ret = [op |-> "none"]
    /\ norm_in = <<>>
    /\ norm_out = <<>>
    /\ db_objs = [created |-> [mode |-> "unborn"], loaded |-> [mode |-> "unborn"]]
    /\ db_disk = [exists |-> FALSE, items |-> <<>>]

\* ParameterisedGains.__init__: the attributes the slope machine inherits.
BaseInit(ra, fd) ==
    /\ gains' = GainTensor(LAMBDA d, t, f, a, c1, c2 : CZero)
    /\ posterior_gain_error' = None
    /\ jhjinv' = None
    /\ ref_ant' = ra
    /\ fix_directions' = fd
    /\ iters' = 0

\* PhaseSlopeGains.__init__ with options["type"] = type.
Construct(type, ra, fd) ==
    /\ status = "new"
    /\ BaseInit(ra, fd)
    /\ slope_type' = type
    /\ n_param' = IF type = "tf-plane" THEN 3 ELSE 2
    /\ slope_params' = ParamTensor(n_param', LAMBDA d, ti, fi, a, p, c1, c2 : RZero)
    /\ posterior_slope_error' = None
    /\ chunk_ts' = _normalize(ChunkTimes)
    /\ chunk_fs' = _normalize(ChunkFreqs)
    /\ IF type \in SlopeTypes
       THEN /\ labels' = LabelsOf(type)
            /\ status' = "ready"
       ELSE /\ labels' = labels
            /\ status' = "failed"     \* raise RuntimeError("unknown type setting")
    /\ ret' = [op |-> "__init__", raised |-> type \notin SlopeTypes]
    /\ UNCHANGED <<overlap_copy, nops, norm_in, norm_out, db_objs, db_disk>>

\* A call on a constructed machine.
Callable == status = "ready" /\ nops < MaxOps

\* The reference added where the code subtracts it (+= for -=).
SubtractRef_Added(P, np, ra, copy) ==
    ParamTensor(np, LAMBDA d, ti, fi, a, p, c1, c2 :
        RAdd(P[d][ti][fi][a][p][c1][c2], P[d][ti][fi][ra][p][c1][c2]))

\* The subtraction taking antenna 0 as the reference whatever ref_ant is.
SubtractRef_FirstAntenna(P, np, ra, copy) ==
    ParamTensor(np, LAMBDA d, ti, fi, a, p, c1, c2 :
        RSub(P[d][ti][fi][a][p][c1][c2], P[d][ti][fi][0][p][c1][c2]))

\* self.slope_params -= self.slope_params[:,:,:,ref_ant,...][:,:,:,np.newaxis,...]
\* The right operand is a view of the left one.  NumPy from 1.13 on copies an
\* overlapping operand first; older releases subtract in place in index order,
\* so antennas after ref_ant read the reference values already zeroed.
SubtractRef(P, np, ra, copy) ==
    ParamTensor(np, LAMBDA d, ti, fi, a, p, c1, c2 :
        IF copy \/ a < ra
        THEN RSub(P[d][ti][fi][a][p][c1][c2], P[d][ti][fi][ra][p][c1][c2])
        ELSE IF a = ra
             THEN RSub(P[d][ti][fi][a][p][c1][c2], P[d][ti][fi][a][p][c1][c2])
             ELSE RSub(P[d][ti][fi][a][p][c1][c2], RZero))

\* The zeroing indexing the time-interval axis instead of the direction axis.
ZeroFixed_WrongAxis(P, np, fd) ==
    ParamTensor(np, LAMBDA d, ti, fi, a, p, c1, c2 :
        IF ti \in fd THEN RZero ELSE P[d][ti][fi][a][p][c1][c2])

\* self.slope_params[idir, ...] = 0 for idir in fix_directions
ZeroFixed(P, np, fd) ==
    ParamTensor(np, LAMBDA d, ti, fi, a, p, c1, c2 :
        IF d \in fd THEN RZero ELSE P[d][ti][fi][a][p][c1][c2])

\* The parameter tensor restrict_solution leaves.
Restricted(P, np, ra, fd, copy) ==
    ZeroFixed(IF ra # NoRefAnt THEN SubtractRef(P, np, ra, copy) ELSE P, np, fd)

\* restrict_solution also reconstructing the gains.
RestrictSolution_Reconstructs ==
    /\ status = "ready" /\ nops < MaxOps
    /\ \E restricted \in {Array(Restricted(slope_params, n_param, ref_ant, fix_directions,
                                           overlap_copy))} :
          /\ slope_params' = restricted
          /\ gains' = cyconstruct_gains(restricted, labels, chunk_ts, chunk_fs)
    /\ ret' = [op |-> "restrict_solution", before |-> slope_params]
    /\ nops' = nops + 1
    /\ UNCHANGED <<status, slope_type, n_param, posterior_slope_error,
                   posterior_gain_error, chunk_ts, chunk_fs, labels, jhjinv,
                   ref_ant, fix_directions, iters, overlap_copy, norm_in, norm_out, db_objs, db_disk>>

\* PhaseSlopeGains.restrict_solution
RestrictSolution ==
    /\ Callable
    /\ slope_params' = Restricted(slope_params, n_param, ref_ant, fix_directions, overlap_copy)
    /\ ret' = [op |-> "restrict_solution", before |-> slope_params]
    /\ nops' = nops + 1
    /\ UNCHANGED <<status, slope_type, n_param, posterior_slope_error,
                   posterior_gain_error, chunk_ts, chunk_fs, labels, gains, jhjinv,
                   ref_ant, fix_directions, iters, overlap_copy, norm_in, norm_out, db_objs, db_disk>>

\* PhaseSlopeGains.precompute_attributes: stores the JHJ-inverse the kernels
\* compute from the model visibilities.
PrecomputeAttributes(k) ==
    /\ Callable
    /\ jhjinv' = JhjinvInput(k, slope_type)
    /\ ret' = [op |-> "precompute_attributes"]
    /\ nops' = nops + 1
    /\ UNCHANGED <<status, slope_type, n_param, slope_params, posterior_slope_error,
                   posterior_gain_error, chunk_ts, chunk_fs, labels, gains,
                   ref_ant, fix_directions, iters, overlap_copy, norm_in, norm_out, db_objs, db_disk>>

\* compute_js recomputing the JHJ-inverse instead of returning the stored one.
compute_js_return_Recomputed(jhr) ==
    [op |-> "compute_js", jhr |-> jhr, jhjinv |-> JhjinvInput(1, slope_type), flags |-> 0]

\* What compute_js returns: jhr, self.jhjinv, 0.
compute_js_return(jhr) ==
    [op |-> "compute_js", jhr |-> jhr, jhjinv |-> jhjinv, flags |-> 0]

\* PhaseSlopeGains.compute_js: jhr is what the Jacobian kernels accumulate;
\* obser and model are the argument arrays as the call leaves them (the
\* residual of line 171 goes to an array of its own).
ComputeJs(k) ==
    /\ Callable
    /\ ret' = compute_js_return(JhrInput(k, n_param))
                  @@ [obser |-> ObserInput, model |-> ModelInput]
    /\ nops' = nops + 1
    /\ UNCHANGED <<machine, norm_in, norm_out, db_objs, db_disk>>

\* The damping with the parity test inverted.
Damped_OddHalved(update, np, it) ==
    IF it % 2 = 1
    THEN ParamTensor(np, LAMBDA d, ti, fi, a, p, c1, c2 :
             RMul(RHalf, update[d][ti][fi][a][p][c1][c2]))
    ELSE update

\* The increment of an iteration: half the update on even iterations.
Damped(update, np, it) ==
    IF it % 2 = 0
    THEN ParamTensor(np, LAMBDA d, ti, fi, a, p, c1, c2 :
             RMul(RHalf, update[d][ti][fi][a][p][c1][c2]))
    ELSE update

\* diag = (0,2) if self.n_param == 2 else (0,3,5)
DiagBlocks(np) == IF np = 2 THEN <<0, 2>> ELSE <<0, 3, 5>>

\* var_slope = jhjinv[...,(0,1),(0,1)].real[...,diag,:]
VarSlope(jhji, np) ==
    ErrTensor(np, LAMBDA d, ti, fi, a, p, c :
        jhji[d][ti][fi][a][DiagBlocks(np)[p + 1]][c][c])

\* self.posterior_slope_error = np.sqrt(var_slope)
PosteriorSlopeError(var_slope, np) ==
    ErrTensor(np, LAMBDA d, ti, fi, a, p, c : RSqrt(var_slope[d][ti][fi][a][p][c]))

\* gerr = np.sqrt(var_slope.sum(axis=-2))
GainErr(var_slope, np) ==
    SolTensor(LAMBDA d, ti, fi, a, c :
        RSqrt(RSum([p \in 0..(np - 1) |-> var_slope[d][ti][fi][a][p][c]], np)))

\* self._interval_to_gainres(x)[d, t, f, a]: an interval-resolution array read
\* at full resolution.
_interval_to_gainres(x, d, t, f, a) == x[d][t \div t_int][f \div f_int][a]

\* if self.posterior_gain_error is None: np.zeros_like(self.gains, dtype=float)
GainErrorOrZeros ==
    IF posterior_gain_error = None
    THEN GainTensor(LAMBDA d, t, f, a, c1, c2 : RZero)
    ELSE posterior_gain_error

\* self.posterior_gain_error[...,c,c] = self._interval_to_gainres(gerr[...,c])
PosteriorGainError(old, gerr) ==
    GainTensor(LAMBDA d, t, f, a, c1, c2 :
        IF c1 = c2 THEN _interval_to_gainres(gerr, d, t, f, a)[c1]
        ELSE old[d][t][f][a][c1][c2])

\* P + Q, entry by entry.
TAdd(P, Q, np) ==
    ParamTensor(np, LAMBDA d, ti, fi, a, p, c1, c2 :
        RAdd(P[d][ti][fi][a][p][c1][c2], Q[d][ti][fi][a][p][c1][c2]))

\* implement_update reconstructing the gains before the constraints.
ImplementUpdate_GainsFirst(jhr, jhji) ==
    /\ Callable
    /\ posterior_slope_error' = PosteriorSlopeError(VarSlope(jhji, n_param), n_param)
    /\ posterior_gain_error' =
           PosteriorGainError(GainErrorOrZeros, GainErr(VarSlope(jhji, n_param), n_param))
    /\ \E update \in {Array(cycompute_update(Array(jhr), Array(jhji), n_param))} :
       \E incremented \in {Array(TAdd(slope_params, Damped(update, n_param, iters), n_param))} :
          /\ gains' = cyconstruct_gains(incremented, labels, chunk_ts, chunk_fs)
          /\ slope_params' = Restricted(incremented, n_param, ref_ant, fix_directions,
                                        overlap_copy)
          /\ ret' = [op |-> "implement_update", update |-> update, iters |-> iters,
                     before |-> slope_params, incremented |-> incremented]
    /\ nops' = nops + 1
    /\ UNCHANGED <<status, slope_type, n_param, chunk_ts, chunk_fs, labels, jhjinv,
                   ref_ant, fix_directions, iters, overlap_copy, norm_in, norm_out, db_objs, db_disk>>

\* PhaseSlopeGains.implement_update
ImplementUpdate(jhr, jhji) ==
    /\ Callable
    /\ posterior_slope_error' = PosteriorSlopeError(VarSlope(jhji, n_param), n_param)
    /\ posterior_gain_error' =
           PosteriorGainError(GainErrorOrZeros, GainErr(VarSlope(jhji, n_param), n_param))
    /\ \E update \in {Array(cycompute_update(Array(jhr), Array(jhji), n_param))} :
       \E incremented \in {Array(TAdd(slope_params, Damped(update, n_param, iters), n_param))} :
       \E restricted \in {Array(Restricted(incremented, n_param, ref_ant, fix_directions,
                                           overlap_copy))} :
          /\ slope_params' = restricted
          /\ gains' = cyconstruct_gains(restricted, labels, chunk_ts, chunk_fs)
          /\ ret' = [op |-> "implement_update", update |-> update, iters |-> iters,
                     before |-> slope_params, incremented |-> incremented]
    /\ nops' = nops + 1
    /\ UNCHANGED <<status, slope_type, n_param, chunk_ts, chunk_fs, labels, jhjinv,
                   ref_ant, fix_directions, iters, overlap_copy, norm_in, norm_out, db_objs, db_disk>>

\* The labels of the machine the table gives a value for.
LoadedLabels(soldict) == {l \in DOMAIN labels : DictGet(soldict, l) # None}

\* The import writing zeros for the labels the table lacks.
ImportedParams_ZeroMissing(soldict) ==
    ParamTensor(n_param, LAMBDA d, ti, fi, a, p, c1, c2 :
        IF c1 = c2 /\ \E l \in LoadedLabels(soldict) : labels[l] = p
        THEN soldict[CHOOSE l \in LoadedLabels(soldict) : labels[l] = p][d][ti][fi][a][c1]
        ELSE IF c1 = c2 THEN RZero ELSE slope_params[d][ti][fi][a][p][c1][c2])

\* self.slope_params[...,num,(0,1),(0,1)] = value, for each loaded label.
ImportedParams(soldict) ==
    ParamTensor(n_param, LAMBDA d, ti, fi, a, p, c1, c2 :
        IF c1 = c2 /\ \E l \in LoadedLabels(soldict) : labels[l] = p
        THEN soldict[CHOOSE l \in LoadedLabels(soldict) : labels[l] = p][d][ti][fi][a][c1]
        ELSE slope_params[d][ti][fi][a][p][c1][c2])

\* The import leaving the gains as they were after loading.
ImportedGains_Stale(soldict, P) == gains

\* The gain tensor import_solutions leaves: reconstructed if anything was loaded.
ImportedGains(soldict, P) ==
    IF LoadedLabels(soldict) # {}
    THEN cyconstruct_gains(P, labels, chunk_ts, chunk_fs)
    ELSE gains

\* PhaseSlopeGains.import_solutions
ImportSolutions(soldict) ==
    /\ Callable
    /\ \E imported \in {Array(ImportedParams(soldict))} :
          /\ slope_params' = imported
          /\ gains' = ImportedGains(soldict, imported)
    /\ ret' = [op |-> "import_solutions", soldict |-> soldict, raised |-> FALSE,
               loaded |-> LoadedLabels(soldict) # {},
               before |-> slope_params, gains_before |-> gains]
    /\ nops' = nops + 1
    /\ UNCHANGED <<status, slope_type, n_param, posterior_slope_error,
                   posterior_gain_error, chunk_ts, chunk_fs, labels, jhjinv,
                   ref_ant, fix_directions, iters, overlap_copy, norm_in, norm_out, db_objs, db_disk>>

ErrKey(label) == label \o ".err"

\* PhaseSlopeGains.exportable_solutions: the keys the machine type declares.
exportable_solutions ==
    {"phase", "delay", "rate", "phase.err", "delay.err", "rate.err"}

\* The export filling label.err from the parameters instead of the errors.
Exported_ErrFromParams ==
    [k \in DOMAIN labels \cup {ErrKey(l) : l \in DOMAIN labels} |->
        LET l == IF k \in DOMAIN labels THEN k
                 ELSE CHOOSE l \in DOMAIN labels : ErrKey(l) = k
        IN  <<SolTensor(LAMBDA d, ti, fi, a, c : slope_params[d][ti][fi][a][labels[l]][c][c]),
              "interval_grid">>]

\* The dict export_solutions fills: label and label.err for each label of the
\* machine, each paired with the interval grid.
Exported ==
    [k \in DOMAIN labels \cup {ErrKey(l) : l \in DOMAIN labels} |->
        IF k \in DOMAIN labels
        THEN <<SolTensor(LAMBDA d, ti, fi, a, c :
                   slope_params[d][ti][fi][a][labels[k]][c][c]),
               "interval_grid">>
        ELSE LET l == CHOOSE l \in DOMAIN labels : ErrKey(l) = k
             IN  <<SolTensor(LAMBDA d, ti, fi, a, c :
                       posterior_slope_error[d][ti][fi][a][labels[l]][c]),
                   "interval_grid">>]

\* PhaseSlopeGains.export_solutions: subscripting posterior_slope_error raises
\* TypeError while it is None.
ExportSolutions ==
    /\ Callable
    /\ ret' = IF posterior_slope_error = None
              THEN [op |-> "export_solutions", raised |-> TRUE, solutions |-> None]
              ELSE [op |-> "export_solutions", raised |-> FALSE, solutions |-> Exported]
    /\ nops' = nops + 1
    /\ UNCHANGED <<machine, norm_in, norm_out, db_objs, db_disk>>

\* ---------------------------------------------------------- visibilities
\* gains.transpose(0,1,2,3,5,4).conj()
ConjTranspose(g) == GainTensor(LAMBDA d, t, f, a, c1, c2 : CConj(g[d][t][f][a][c2][c1]))

\* cyslope.cycompute_residual: D - sum over directions of G M G^H; the
\* difference is kept as the minuend and the subtracted terms.
cycompute_residual(model, g, gh, o) ==
    VisTensor(LAMBDA m, t, f, p, q, c1, c2 :
        [obs |-> o[m][t][f][p][q][c1][c2],
         minus |-> [d \in Dirs |->
                     CMul(CMul(g[d][t][f][p][c1][c1], model[d][m][t][f][p][q][c1][c2]),
                          gh[d][t][f][q][c2][c2])]])

\* PhaseSlopeGains.compute_residual: resid_arr[:] = obser_arr, then the kernel
\* works on resid_arr; obser and model are the argument arrays as the call
\* leaves them.
ComputeResidual ==
    /\ Callable
    /\ ret' = [op |-> "compute_residual",
               resid |-> cycompute_residual(ModelInput, gains, ConjTranspose(gains), ObserInput),
               obser |-> ObserInput, model |-> ModelInput]
    /\ nops' = nops + 1
    /\ UNCHANGED <<machine, norm_in, norm_out, db_objs, db_disk>>

\* cyslope.cycompute_corrected: G^-1 D G^-H with the gains of direction 0.
cycompute_corrected(o, g_inv, gh_inv) ==
    VisTensor(LAMBDA m, t, f, p, q, c1, c2 :
        CMul(CMul(g_inv[0][t][f][p][c1][c1], o[m][t][f][p][q][c1][c2]),
             gh_inv[0][t][f][q][c2][c2]))

\* The conjugation left out.
Conj_Omitted(g) == g

\* g.conj()
Conj(g) == GainTensor(LAMBDA d, t, f, a, c1, c2 : CConj(g[d][t][f][a][c1][c2]))

\* The visibilities M with the gains g of direction 0 applied: G M G^H.
GainsApplied(g, M) ==
    VisTensor(LAMBDA m, t, f, p, q, c1, c2 :
        CMul(CMul(g[0][t][f][p][c1][c1], M[m][t][f][p][q][c1][c2]),
             CConj(g[0][t][f][q][c2][c2])))

\* Arrays handed to apply_inv_gains: raw visibilities, or visibilities the
\* current gains were applied to.
ResidInput(k) == IF k = 1 THEN ObserInput ELSE GainsApplied(gains, ObserInput)

\* PhaseSlopeGains.apply_inv_gains: resid_in is the argument, resid the
\* argument array as the call leaves it.
ApplyInvGains(resid_arr) ==
    /\ Callable
    /\ ret' = [op |-> "apply_inv_gains", resid_in |-> resid_arr, resid |-> resid_arr,
               corr_vis |-> cycompute_corrected(resid_arr, Conj(gains), Conj(Conj(gains))),
               flags |-> 0]
    /\ nops' = nops + 1
    /\ UNCHANGED <<machine, norm_in, norm_out, db_objs, db_disk>>

\* The solver moves on to its next iteration.
NextIteration ==
    /\ Callable
    /\ iters' = iters + 1
    /\ ret' = [op |-> "next_iteration"]
    /\ nops' = nops + 1
    /\ UNCHANGED <<status, slope_type, n_param, slope_params, posterior_slope_error,
                   posterior_gain_error, chunk_ts, chunk_fs, labels, gains, jhjinv,
                   ref_ant, fix_directions, overlap_copy, norm_in, norm_out, db_objs, db_disk>>

\* Options the machine is constructed with.
TypeOptions == SlopeTypes \cup {"bogus"}
RefAntOptions == {NoRefAnt, 1}
FixDirOptions == {{}, {1}}

Next ==
    \/ \E type \in TypeOptions, ra \in RefAntOptions, fd \in FixDirOptions :
          Construct(type, ra, fd)
    \/ \E k \in 1..2 : PrecomputeAttributes(k)
    \/ \E k \in 1..2 : ComputeJs(k)
    \/ \E k \in 1..2 :
          ImplementUpdate(JhrInput(k, n_param), JhjinvInput(k, slope_type))
    \/ RestrictSolution
    \/ \E soldict \in SolDicts : ImportSolutions(soldict)
    \/ ExportSolutions
    \/ ComputeResidual
    \/ \E k \in 1..2 : ApplyInvGains(ResidInput(k))
    \/ NextIteration

Spec == Init /\ [][Next]_vars

\* ------------------------------------------------ _normalize on its own
\* Coordinate arrays of up to MaxLen reals.
NormInputs == UNION {[1..n -> {RatOf(v) : v \in 0..MaxCoord}] : n \in 0..MaxLen}

InitNorm ==
    /\ Init
    /\ overlap_copy = TRUE

CallNormalize(x) ==
    /\ norm_in = <<>>
    /\ norm_out = <<>>
    /\ norm_in' = x
    /\ norm_out' = _normalize(x)
    /\ ret' = [op |-> "_normalize"]
    /\ UNCHANGED <<machine, nops, db_objs, db_disk>>

NextNorm == \E x \in NormInputs : CallNormalize(x)

SpecNorm == InitNorm /\ [][NextNorm]_vars

\* ------------------------------------------------- plots (gainsols.py)
\* Solutions handed to a plot call, and rows and columns of the plot grid.
MaxSols == 4
MaxGrid == 3

\* int(plot_diag in ('ap', 'ri')) + int(plot_offdiag in ('ap', 'ri'))
plots_per_sol(plot_diag, plot_offdiag) ==
    (IF plot_diag \in {"ap", "ri"} THEN 1 ELSE 0)
        + (IF plot_offdiag \in {"ap", "ri"} THEN 1 ELSE 0)

\* get_plot_counts, with options.nrow and options.ncol as arguments:
\* max_sols, max_sols*plots_per_sol, rows_needed.
get_plot_counts(nsols, pps, nrow, ncol) ==
    LET num_plots == nsols * pps
        rows_needed == (num_plots + ncol - 1) \div ncol
        max_sols == IF rows_needed > nrow THEN (nrow * ncol) \div pps ELSE nsols
    IN  [max_sols |-> max_sols, max_plots |-> max_sols * pps, rows_needed |-> rows_needed]

\* The subplot(nrow, ncol, nplot) calls made for `shown` solutions: nplot runs
\* from 1 up, and the first call with nplot beyond the grid raises ValueError.
SubplotCalls(shown, pps, nrow, ncol) ==
    IF shown * pps > nrow * ncol THEN nrow * ncol + 1 ELSE shown * pps

\* The record of a plot call.
PlotRecord(name, nsols, pps, nrow, ncol, shown) ==
    [op |-> name, nsols |-> nsols, plots_per_sol |-> pps, nrow |-> nrow, ncol |-> ncol,
     counts |-> get_plot_counts(nsols, pps, nrow, ncol),
     shown |-> shown,
     nplot |-> SubplotCalls(shown, pps, nrow, ncol),
     raised |-> shown * pps > nrow * ncol]

\* sols.items()[:max_sols]
ShownBandpass(nsols, max_sols) == IF max_sols < nsols THEN max_sols ELSE nsols

\* sols.items()
ShownGain(nsols, max_sols) == nsols

\* plot_bandpass
PlotBandpass(nsols, plot_diag, plot_offdiag, nrow, ncol) ==
    /\ ret' = PlotRecord("plot_bandpass", nsols, plots_per_sol(plot_diag, plot_offdiag),
                         nrow, ncol,
                         ShownBandpass(nsols,
                             get_plot_counts(nsols, plots_per_sol(plot_diag, plot_offdiag),
                                             nrow, ncol).max_sols))
    /\ UNCHANGED <<machine, nops, norm_in, norm_out, db_objs, db_disk>>

\* plot_gain
PlotGain(nsols, plot_diag, plot_offdiag, nrow, ncol) ==
    /\ ret' = PlotRecord("plot_gain", nsols, plots_per_sol(plot_diag, plot_offdiag),
                         nrow, ncol,
                         ShownGain(nsols,
                             get_plot_counts(nsols, plots_per_sol(plot_diag, plot_offdiag),
                                             nrow, ncol).max_sols))
    /\ UNCHANGED <<machine, nops, norm_in, norm_out, db_objs, db_disk>>

PlotKinds == {"ap", "ri", ""}

NextPlot ==
    \/ \E nsols \in 1..MaxSols, pd \in PlotKinds, po \in PlotKinds,
          nrow \in 1..MaxGrid, ncol \in 1..MaxGrid :
          PlotBandpass(nsols, pd, po, nrow, ncol)
    \/ \E nsols \in 1..MaxSols, pd \in PlotKinds, po \in PlotKinds,
          nrow \in 1..MaxGrid, ncol \in 1..MaxGrid :
          PlotGain(nsols, pd, po, nrow, ncol)

SpecPlot == InitNorm /\ [][NextPlot]_vars

\* ----------------------------------------------- parameter database
\* SimpleParameterDB of cubical/param_db.py.  Two objects are followed: the
\* one made by SimpleParameterDB.create() and the one made by
\* SimpleParameterDB.load(); both name the same file.

MaxRecords == 3             \* items dumped to the database file

DBObjects == {"created", "loaded"}

NoObject == [mode |-> "unborn"]

NoError == ""

RECURSIVE Indices(_)
Indices(shape) ==
    IF shape = <<>> THEN {<<>>}
    ELSE {<<i>> \o r : i \in 0..(shape[1] - 1), r \in Indices(Tail(shape))}

\* np.full(shape, value)
Filled(shape, value) ==
    [shape |-> shape, data |-> [idx \in Indices(shape) |-> value]]

\* the k-th array handed to add_slice: every element tells k and its place
SliceArray(k, shape) ==
    [shape |-> shape,
     data  |-> [idx \in Indices(shape) |->
                   10 * k + 3 * idx[1] + idx[Len(idx)]]]

AxisLabels == <<"ant", "time">>

\* arguments of define_param; grids is given by its keys
DefineInputs ==
    { [name |-> "G", shape |-> <<2, 3>>, axis_labels |-> AxisLabels,
       grids |-> {}, empty |-> 0],
      [name |-> "B", shape |-> <<2, 2>>, axis_labels |-> AxisLabels,
       grids |-> {"time"}, empty |-> 9],
      [name |-> "G", shape |-> <<2, 3, 1>>, axis_labels |-> AxisLabels,
       grids |-> {}, empty |-> 0],
      [name |-> "G", shape |-> <<2, 3>>, axis_labels |-> AxisLabels,
       grids |-> {"chan"}, empty |-> 0] }

\* arguments of add_slice; slices is a dict given as a set of
\* <<axis, start, stop>>, for {axis: slice(start, stop)}
SliceInput(k, name, shape, slices) ==
    [name |-> name, array |-> SliceArray(k, shape), slices |-> slices]

SliceInputs ==
    { SliceInput(1, "G", <<2, 2>>, {<<"time", 0, 2>>}),
      SliceInput(2, "G", <<2, 2>>, {<<"time", 1, 3>>}),
      SliceInput(3, "G", <<2, 3>>, {}),
      SliceInput(4, "G", <<3, 3>>, {}),
      SliceInput(5, "G", <<2>>, {}),
      SliceInput(6, "G", <<2, 3, 1>>, {}),
      SliceInput(7, "G", <<2, 3>>, {<<"time", 0, 2>>}),
      SliceInput(8, "G", <<2, 1>>, {<<"time", 0, 2>>}),
      SliceInput(9, "B", <<2, 2>>, {}),
      SliceInput(10, "G", <<2, 2>>, {<<"chan", 0, 2>>}),
      SliceInput(11, "G", <<2, 2>>, {<<"time", 2, 4>>}) }

SliceAxes(slices) == {s[1] : s \in slices}

\* dict[key] = value
Put(dict, key, value) ==
    [n \in (DOMAIN dict) \cup {key} |-> IF n = key THEN value ELSE dict[n]]

\* {label: i for i, label in enumerate(axis_labels)}
axis_index(axis_labels) ==
    [label \in {axis_labels[i] : i \in DOMAIN axis_labels} |->
        (CHOOSE i \in DOMAIN axis_labels :
            /\ axis_labels[i] = label
            /\ \A j \in DOMAIN axis_labels : axis_labels[j] = label => j <= i)
        - 1]

\* the parmdesc dict that define_param builds and dumps
ParmDesc(in) ==
    [entry |-> "parmdesc", name |-> in.name, shape |-> in.shape,
     grids |-> in.grids, axis_labels |-> in.axis_labels,
     axis_index |-> axis_index(in.axis_labels), empty |-> in.empty]

\* the slice dict that add_slice builds and dumps
SliceItem(in) ==
    [entry |-> "slice", name |-> in.name, array |-> in.array,
     slices |-> in.slices]

\* slice(start, stop).indices(n): the bounds clipped to the axis
Clipped(bounds, n) ==
    LET lo == IF bounds[1] < n THEN bounds[1] ELSE n
        hi == IF bounds[2] < n THEN bounds[2] ELSE n
    IN  <<lo, IF hi < lo THEN lo ELSE hi>>

\* total_slice of _load: slice(None) on every axis, then the given slices
total_slice(desc, slices) ==
    [i \in DOMAIN desc.shape |->
        IF \E s \in slices : desc.axis_index[s[1]] = i - 1
        THEN LET s == CHOOSE s \in slices : desc.axis_index[s[1]] = i - 1
             IN  Clipped(<<s[2], s[3]>>, desc.shape[i])
        ELSE <<0, desc.shape[i]>>]

\* NumPy's rule for array[total_slice] = src: src is broadcast to the
\* selected block, its surplus leading axes must have length one
Broadcastable(src_shape, block) ==
    \A j \in DOMAIN src_shape :
        LET a == j + Len(block) - Len(src_shape)
        IN  IF a < 1 THEN src_shape[j] = 1
            ELSE src_shape[j] = block[a] \/ src_shape[j] = 1

\* array[total_slice] = src (param_db.py line 129)
Paste(array, desc, slices, src) ==
    IF ~(SliceAxes(slices) \subseteq DOMAIN desc.axis_index)
    THEN [err |-> "KeyError", array |-> array]
    ELSE
    LET ts    == total_slice(desc, slices)
        m     == Len(desc.shape)
        block == [i \in 1..m |-> ts[i][2] - ts[i][1]]
        k     == Len(src.shape)
        SrcIndex(idx) ==
            [j \in 1..k |->
                IF j + m - k < 1 \/ src.shape[j] = 1 THEN 0
                ELSE idx[j + m - k] - ts[j + m - k][1]]
    IN  IF ~Broadcastable(src.shape, block)
        THEN [err |-> "ValueError", array |-> array]
        ELSE [err |-> NoError,
              array |-> [array EXCEPT !.data =
                  [idx \in DOMAIN array.data |->
                      IF \A i \in 1..m : /\ ts[i][1] <= idx[i]
                                         /\ idx[i] < ts[i][2]
                      THEN src.data[SrcIndex(idx)]
                      ELSE array.data[idx]]]]

\* one turn of the loop of _load (lines 111-131)
LoadItem(st, item) ==
    IF item.entry = "parmdesc"
    THEN [st EXCEPT !.parmdescs = Put(@, item.name, item),
                    !.arrays = Put(@, item.name,
                                   Filled(item.shape, item.empty))]
    ELSE IF item.entry = "slice"
    THEN IF item.name \notin DOMAIN st.parmdescs
         THEN [st EXCEPT !.err = "IOError"]
         ELSE LET p == Paste(st.arrays[item.name], st.parmdescs[item.name],
                             item.slices, item.array)
              IN  IF p.err # NoError THEN [st EXCEPT !.err = p.err]
                  ELSE [st EXCEPT !.arrays = Put(@, item.name, p.array)]
    ELSE [st EXCEPT !.err = "IOError"]

RECURSIVE LoadItems(_, _)
LoadItems(items, st) ==
    IF items = <<>> \/ st.err # NoError THEN st
    ELSE LoadItems(Tail(items), LoadItem(st, Head(items)))

\* _load(filename): the object it leaves, and the exception it raises
_load(disk) ==
    IF ~disk.exists
    THEN [err |-> "IOError", parmdescs |-> <<>>, arrays |-> <<>>]
    ELSE LoadItems(disk.items,
                   [err |-> NoError, parmdescs |-> <<>>, arrays |-> <<>>])

\* the object returned by SimpleParameterDB.load()
Loaded(st) ==
    [mode |-> "load", fobj |-> [state |-> "unset", buf |-> <<>>],
     parmdescs |-> st.parmdescs, has_arrays |-> TRUE, arrays |-> st.arrays]

\* SimpleParameterDB.create(filename): open(filename, 'w') truncates the file
CreateDB ==
    /\ db_objs.created.mode = "unborn"
    /\ db_objs' = [db_objs EXCEPT !.created =
           [mode |-> "create", fobj |-> [state |-> "open", buf |-> <<>>],
            parmdescs |-> <<>>, has_arrays |-> FALSE, arrays |-> <<>>]]
    /\ db_disk' = [exists |-> TRUE, items |-> <<>>]
    /\ ret' = [op |-> "create", obj |-> "created", err |-> NoError]
    /\ UNCHANGED <<machine, nops, norm_in, norm_out>>

\* cPickle.dump(item, self._fobj, 2): the item goes to the file's buffer
Dumped(fobj, item) == [fobj EXCEPT !.buf = Append(@, item)]

\* the exception define_param raises on the object, NoError if none
DefineParamError(self, in) ==
    IF self.mode # "create" THEN "AssertionError"
    ELSE IF Len(in.shape) # Len(in.axis_labels) THEN "AssertionError"
    ELSE IF ~(in.grids \subseteq DOMAIN axis_index(in.axis_labels))
    THEN "AssertionError"
    ELSE IF self.fobj.state # "open" THEN "AttributeError"
    ELSE NoError

DefineParam(o, in) ==
    /\ db_objs[o].mode # "unborn"
    /\ db_objs[o].fobj.state = "open" => Len(db_objs[o].fobj.buf) < MaxRecords
    /\ LET self == db_objs[o]
           err  == DefineParamError(self, in)
       IN  /\ db_objs' = [db_objs EXCEPT ![o] =
                  IF err = "AssertionError" THEN self
                  ELSE IF err = "AttributeError"
                  THEN [self EXCEPT !.parmdescs = Put(@, in.name, ParmDesc(in))]
                  ELSE [self EXCEPT !.parmdescs = Put(@, in.name, ParmDesc(in)),
                                    !.fobj = Dumped(@, ParmDesc(in))]]
           /\ ret' = [op |-> "define_param", obj |-> o, err |-> err,
                      name |-> in.name]
    /\ UNCHANGED <<machine, nops, norm_in, norm_out, db_disk>>

\* the exception add_slice raises on the object, NoError if none.  The
\* raise statement of line 80 formats its message with "{[i]}", which
\* itself raises TypeError in place of the ValueError.
AddSliceError(self, in) ==
    IF self.mode # "create" THEN "AssertionError"
    ELSE IF in.name \notin DOMAIN self.parmdescs THEN "AssertionError"
    ELSE
    LET parmdesc == self.parmdescs[in.name]
        shape    == in.array.shape
        bad == {i \in DOMAIN parmdesc.axis_labels :
                   /\ parmdesc.axis_labels[i] \notin SliceAxes(in.slices)
                   /\ (i > Len(shape) \/ shape[i] # parmdesc.shape[i])}
        first == CHOOSE i \in bad : \A j \in bad : i <= j
    IN  IF ~(SliceAxes(in.slices) \subseteq DOMAIN parmdesc.axis_index)
        THEN "AssertionError"
        ELSE IF bad # {}
        THEN (IF first > Len(shape) THEN "IndexError" ELSE "TypeError")
        ELSE IF self.fobj.state # "open" THEN "AttributeError"
        ELSE NoError

AddSlice(o, in) ==
    /\ db_objs[o].mode # "unborn"
    /\ db_objs[o].fobj.state = "open" => Len(db_objs[o].fobj.buf) < MaxRecords
    /\ LET self == db_objs[o]
           err  == AddSliceError(self, in)
       IN  /\ db_objs' = [db_objs EXCEPT ![o] =
                  IF err # NoError THEN self
                  ELSE [self EXCEPT !.fobj = Dumped(@, SliceItem(in))]]
           /\ ret' = [op |-> "add_slice", obj |-> o, err |-> err,
                      name |-> in.name, shape |-> in.array.shape,
                      slices |-> in.slices]
    /\ UNCHANGED <<machine, nops, norm_in, norm_out, db_disk>>

\* close(): self._fobj.close() writes the buffer out; on an object without
\* an open file the call itself raises AttributeError
Closed_ModeKept(self) ==
    [self EXCEPT !.fobj = [state |-> "None", buf |-> <<>>]]

Closed(self) ==
    [self EXCEPT !.fobj = [state |-> "None", buf |-> <<>>], !.mode = "closed"]

Close(o) ==
    /\ db_objs[o].mode # "unborn"
    /\ LET self == db_objs[o]
       IN  IF self.fobj.state # "open"
           THEN /\ ret' = [op |-> "close", obj |-> o, err |-> "AttributeError"]
                /\ UNCHANGED <<db_objs, db_disk>>
           ELSE /\ db_disk' = [exists |-> TRUE, items |-> self.fobj.buf]
                /\ db_objs' = [db_objs EXCEPT ![o] = Closed(self)]
                /\ ret' = [op |-> "close", obj |-> o, err |-> NoError]
    /\ UNCHANGED <<machine, nops, norm_in, norm_out>>

\* reload(): self.close(), then self.load(self.filename).  load is a static
\* method: it builds another object, which reload() does not keep.
Reload(o) ==
    /\ db_objs[o].mode # "unborn"
    /\ LET self == db_objs[o]
       IN  IF self.fobj.state # "open"
           THEN /\ ret' = [op |-> "reload", obj |-> o,
                           err |-> "AttributeError"]
                /\ UNCHANGED <<db_objs, db_disk>>
           ELSE /\ db_disk' = [exists |-> TRUE, items |-> self.fobj.buf]
                /\ db_objs' = [db_objs EXCEPT ![o] = Closed(self)]
                /\ ret' = [op |-> "reload", obj |-> o,
                           err |-> _load(db_disk').err]
    /\ UNCHANGED <<machine, nops, norm_in, norm_out>>

\* db = SimpleParameterDB.load(filename)
LoadDB ==
    /\ LET st == _load(db_disk)
       IN  /\ db_objs' = [db_objs EXCEPT !.loaded =
                  IF st.err = NoError THEN Loaded(st) ELSE @]
           /\ ret' = [op |-> "load", obj |-> "loaded", err |-> st.err]
    /\ UNCHANGED <<machine, nops, norm_in, norm_out, db_disk>>

\* get(name)
Get(o, name) ==
    /\ db_objs[o].mode # "unborn"
    /\ LET self == db_objs[o]
           err  == IF self.mode # "load" THEN "AssertionError"
                   ELSE IF ~self.has_arrays THEN "AttributeError"
                   ELSE IF name \notin DOMAIN self.arrays THEN "KeyError"
                   ELSE NoError
       IN  ret' = [op |-> "get", obj |-> o, err |-> err, name |-> name,
                   value |-> IF err = NoError THEN self.arrays[name]
                             ELSE None]
    /\ UNCHANGED <<machine, nops, norm_in, norm_out, db_objs, db_disk>>

ParamNames == {"G", "B", "X"}

NextDB ==
    \/ CreateDB
    \/ \E o \in DBObjects : \E in \in DefineInputs : DefineParam(o, in)
    \/ \E o \in DBObjects : \E in \in SliceInputs : AddSlice(o, in)
    \/ \E o \in DBObjects : Close(o)
    \/ \E o \in DBObjects : Reload(o)
    \/ LoadDB
    \/ \E o \in DBObjects : \E name \in ParamNames : Get(o, name)

SpecDB == InitNorm /\ [][NextDB]_vars

\* ------------------------------------------------------------ properties
Params == 0..(n_param - 1)

\* The call that has just returned ran restrict_solution (implement_update
\* calls it after the increment, and does not touch the parameters after it).
AfterRestrict == ret.op \in {"restrict_solution", "implement_update"}

\* Component num of a parameter tensor on the diagonal correlations:
\* P[...,num,(0,1),(0,1)].
Component(P, num) == SolTensor(LAMBDA d, ti, fi, a, c : P[d][ti][fi][a][num][c][c])

\* C1: after restrict_solution with a reference antenna set, every slope
\* parameter of the reference antenna is exactly 0, for every direction,
\* interval, component and correlation entry.
C1_RefAntennaPinned ==
    (AfterRestrict /\ ref_ant # NoRefAnt) =>
        \A d \in Dirs, ti \in TInts, fi \in FInts, p \in Params, c1 \in Cors, c2 \in Cors :
            slope_params[d][ti][fi][ref_ant][p][c1][c2] = RZero

\* restrict_solution has zeroed a reference antenna that held a non-zero value.
C1_Witness ==
    /\ ret.op = "restrict_solution"
    /\ ref_ant # NoRefAnt
    /\ ret.before[0][0][0][ref_ant][0][0][0] # RZero
    /\ slope_params[0][0][0][ref_ant][0][0][0] = RZero

\* C2: after restrict_solution every slope parameter of every fixed direction
\* is exactly 0, with or without a reference antenna, and after the gain
\* reconstruction that ends implement_update the gain of a fixed direction is
\* 1+0i on both diagonal correlations for every time, frequency and antenna.
C2_FixedDirections ==
    /\ AfterRestrict =>
           \A d \in fix_directions, ti \in TInts, fi \in FInts, a \in Ants,
              p \in Params, c1 \in Cors, c2 \in Cors :
               slope_params[d][ti][fi][a][p][c1][c2] = RZero
    /\ ret.op = "implement_update" =>
           \A d \in fix_directions, t \in Tims, f \in Fres, a \in Ants, c \in Cors :
               gains[d][t][f][a][c][c] = COne

\* implement_update with a reference antenna has zeroed a fixed direction whose
\* incremented parameters were not 0, while a free direction keeps a phase.
C2_Witness ==
    /\ ret.op = "implement_update"
    /\ fix_directions = {1}
    /\ ref_ant # NoRefAnt
    /\ ret.incremented[1][0][0][0][0][0][0] # RZero
    /\ slope_params[1][0][0][0][0][0][0] = RZero
    /\ gains[1][0][0][0][0][0] = COne
    /\ gains[0][0][0][0][0][0] # COne

\* Every diagonal entry of g has modulus 1 and every off-diagonal entry is 0.
UnitModulus(g) ==
    /\ g # None
    /\ \A d \in Dirs, t \in Tims, f \in Fres, a \in Ants, c1 \in Cors, c2 \in Cors :
           IF c1 = c2 THEN g[d][t][f][a][c1][c2].mag = ROne
           ELSE g[d][t][f][a][c1][c2] = CZero

Reconstructed(r) ==
    \/ r.op = "implement_update"
    \/ r.op = "import_solutions" /\ r.loaded

C4_Damping ==
    ret.op = "implement_update" =>
        \A d \in Dirs, ti \in TInts, fi \in FInts, a \in Ants,
           p \in Params, c1 \in Cors, c2 \in Cors :
            RSub(ret.incremented[d][ti][fi][a][p][c1][c2],
                 ret.before[d][ti][fi][a][p][c1][c2])
              = IF ret.iters % 2 = 0
                THEN RMul(RHalf, ret.update[d][ti][fi][a][p][c1][c2])
                ELSE ret.update[d][ti][fi][a][p][c1][c2]

\* implement_update on an odd iteration has added a non-zero raw update whole.
C4_Witness ==
    /\ ret.op = "implement_update"
    /\ ret.iters = 1
    /\ ret.update[0][0][0][0][0][0][0] # RZero
    /\ ret.incremented[0][0][0][0][0][0][0] = ret.update[0][0][0][0][0][0][0]

\* The table of the call holds phase and nothing else.
PhaseOnly(r) == r.op = "import_solutions" /\ DOMAIN (r.soldict) = {"phase"}

\* C5: import_solutions with a phase-only table leaves the delay and rate
\* components as they were, and an export_solutions that follows it succeeds and
\* returns the imported values under phase, whether or not an iteration ran.
C5_PartialImportRoundTrip ==
    [][/\ PhaseOnly(ret') =>
              \A l \in DOMAIN labels \ {"phase"} :
                  Component(slope_params', labels[l]) = Component(slope_params, labels[l])
       /\ (PhaseOnly(ret) /\ ret'.op = "export_solutions") =>
              /\ ~ret'.raised
              /\ ret'.solutions["phase"][1] = ret.soldict["phase"]]_vars

\* C6: restrict_solution with a reference antenna r subtracts from every
\* antenna a, below or above r, the value r held before the call, for every
\* free direction, interval, component and correlation entry.
C6_SubtractsValueBeforeCall ==
    (ret.op = "restrict_solution" /\ ref_ant # NoRefAnt) =>
        \A d \in Dirs \ fix_directions, ti \in TInts, fi \in FInts, a \in Ants,
           p \in Params, c1 \in Cors, c2 \in Cors :
            slope_params[d][ti][fi][a][p][c1][c2]
              = RSub(ret.before[d][ti][fi][a][p][c1][c2],
                     ret.before[d][ti][fi][ref_ant][p][c1][c2])

\* C7: a construction with an unknown type fails and leaves no parameter
\* tensor, normalized grid or label map assigned.
C7_NoPartialState ==
    (ret.op = "__init__" /\ slope_type \notin SlopeTypes) =>
        /\ ret.raised
        /\ status = "failed"
        /\ slope_params = None
        /\ chunk_ts = None
        /\ chunk_fs = None
        /\ labels = None

\* C8: only precompute_attributes writes the JHJ-inverse; every other call
\* leaves it as it was, and compute_js returns the stored tensor.
C8_JhjinvFrozen ==
    [][/\ ret'.op # "precompute_attributes" => jhjinv' = jhjinv
       /\ ret'.op = "compute_js" => ret'.jhjinv = jhjinv]_vars

\* compute_js has returned the tensor a precompute_attributes call stored,
\* which is not the one a recomputation would give.
C8_Witness ==
    /\ ret.op = "compute_js"
    /\ jhjinv # None
    /\ ret.jhjinv = jhjinv
    /\ jhjinv = JhjinvInput(2, slope_type)

\* C9: import_solutions does not raise on a table lacking labels; the component
\* of a label the table lacks, or maps to None, stays as it was and the
\* component of a label it holds takes the table's values; with no label loaded
\* the parameters and the gains are unchanged; with a label loaded the gains
\* are those of the whole parameter tensor.
C9_ImportSkipsMissing ==
    ret.op = "import_solutions" =>
        /\ ~ret.raised
        /\ \A l \in DOMAIN labels :
               Component(slope_params, labels[l])
                 = IF DictGet(ret.soldict, l) = None
                   THEN Component(ret.before, labels[l])
                   ELSE ret.soldict[l]
        /\ ret.loaded = (\E l \in DOMAIN labels : DictGet(ret.soldict, l) # None)
        /\ IF ret.loaded
           THEN gains = cyconstruct_gains(slope_params, labels, chunk_ts, chunk_fs)
           ELSE slope_params = ret.before /\ gains = ret.gains_before

\* An import has loaded delay, skipped a phase mapped to None and left the
\* non-zero phase component of an earlier update in place.
C9_Witness ==
    /\ ret.op = "import_solutions"
    /\ DOMAIN (ret.soldict) = {"phase", "delay"}
    /\ "delay" \in DOMAIN labels
    /\ ret.loaded
    /\ Component(slope_params, labels["phase"]) = Component(ret.before, labels["phase"])
    /\ slope_params[0][0][0][0][labels["phase"]][0][0] # RZero
    /\ Component(slope_params, labels["delay"]) # Component(ret.before, labels["delay"])

\* out is the linear map of x that sends its first element to 0 and its last to 1.
LinearMap01(x, out) ==
    /\ Len(out) = Len(x)
    /\ out[1] = RZero
    /\ out[Len(x)] = ROne
    /\ \A i \in 1..Len(x) : RMul(out[i], RSub(x[Len(x)], x[1])) = RSub(x[i], x[1])

\* C10 as stated: _normalize maps an input of two or more elements linearly
\* with first element 0 and last element 1, gives a single 0 for one element
\* and returns an empty input unchanged.
C10_NormalizeAnyInput ==
    ret.op = "_normalize" =>
        IF Len(norm_in) >= 2 THEN LinearMap01(norm_in, norm_out)
        ELSE IF Len(norm_in) = 1 THEN norm_out = <<RZero>>
        ELSE norm_out = norm_in

\* C10 as amended: the same, for inputs of two or more elements whose first and
\* last elements differ.
C10_NormalizeDistinctEnds ==
    ret.op = "_normalize" =>
        IF Len(norm_in) >= 2
        THEN norm_in[1] # norm_in[Len(norm_in)] => LinearMap01(norm_in, norm_out)
        ELSE IF Len(norm_in) = 1 THEN norm_out = <<RZero>>
        ELSE norm_out = norm_in

\* _normalize has mapped three coordinates that do not start at 0 onto [0, 1]
\* with an interior point strictly inside.
C10_Witness ==
    /\ ret.op = "_normalize"
    /\ Len(norm_in) = 3
    /\ norm_in[1] # RZero
    /\ norm_out[1] = RZero
    /\ norm_out[3] = ROne
    /\ norm_out[2] \notin {RZero, ROne}
    /\ IsFinite(norm_out[2])

\* C11: with unit-modulus diagonal gains, apply_inv_gains handed G M G^H (the
\* gains of the direction it corrects for applied to the visibilities M)
\* returns M for every antenna pair, time, frequency and correlation, and
\* reports 0 flags.
C11_InverseRecoversVisibilities ==
    (ret.op = "apply_inv_gains" /\ UnitModulus(gains)) =>
        /\ ret.flags = 0
        /\ ret.resid_in = GainsApplied(gains, ObserInput) => ret.corr_vis = ObserInput

\* apply_inv_gains has undone gains with a non-zero phase: the array it was
\* handed differs from the visibilities it returned.
C11_Witness ==
    /\ ret.op = "apply_inv_gains"
    /\ UnitModulus(gains)
    /\ gains[0][1][1][0][0][0].arg # RZero
    /\ ret.resid_in = GainsApplied(gains, ObserInput)
    /\ ret.resid_in # ObserInput
    /\ ret.corr_vis = ObserInput

\* The labels the claim lists for each slope type.
ClaimedLabels(type) ==
    IF type = "tf-plane" THEN {"phase", "delay", "rate"}
    ELSE IF type = "f-slope" THEN {"phase", "delay"}
    ELSE {"phase", "rate"}

\* C12: export_solutions gives, for each label of the active slope type and for
\* no other, label with the diagonal-correlation parameters of the label's
\* component and label.err with the posterior errors of that component, each
\* paired with the interval grid; the keys are among those exportable_solutions
\* lists.
C12_ExportContents ==
    (ret.op = "export_solutions" /\ ~ret.raised) =>
        /\ DOMAIN (ret.solutions)
             = ClaimedLabels(slope_type) \cup {l \o ".err" : l \in ClaimedLabels(slope_type)}
        /\ DOMAIN (ret.solutions) \subseteq exportable_solutions
        /\ \A l \in ClaimedLabels(slope_type) :
              /\ ret.solutions[l]
                   = <<SolTensor(LAMBDA d, ti, fi, a, c :
                           slope_params[d][ti][fi][a][labels[l]][c][c]),
                       "interval_grid">>
              /\ ret.solutions[l \o ".err"]
                   = <<SolTensor(LAMBDA d, ti, fi, a, c :
                           posterior_slope_error[d][ti][fi][a][labels[l]][c]),
                       "interval_grid">>

\* An f-slope machine has exported its solved phase and delay, and no rate.
C12_Witness ==
    /\ ret.op = "export_solutions"
    /\ ~ret.raised
    /\ slope_type = "f-slope"
    /\ DOMAIN (ret.solutions) = {"phase", "delay", "phase.err", "delay.err"}
    /\ ret.solutions["delay"][1][0][0][0][0][0] # RZero
    /\ ret.solutions["delay.err"][1][0][0][0][0][0] # ret.solutions["delay"][1][0][0][0][0][0]

\* C17: when implement_update returns, the parameters are the incremented
\* parameters with the constraints applied (reference antenna 0, fixed
\* directions 0) and the gains are the reconstruction of those constrained
\* parameters.
C17_UpdateRestrictReconstruct ==
    ret.op = "implement_update" =>
        /\ slope_params = Restricted(ret.incremented, n_param, ref_ant, fix_directions,
                                     overlap_copy)
        /\ \A d \in Dirs, ti \in TInts, fi \in FInts, a \in Ants,
              p \in Params, c1 \in Cors, c2 \in Cors :
               (d \in fix_directions \/ a = ref_ant) =>
                   slope_params[d][ti][fi][a][p][c1][c2] = RZero
        /\ gains = cyconstruct_gains(slope_params, labels, chunk_ts, chunk_fs)

\* implement_update has returned gains that differ from the reconstruction of
\* the unconstrained parameters.
C17_Witness ==
    /\ ret.op = "implement_update"
    /\ ref_ant # NoRefAnt
    /\ fix_directions # {}
    /\ ret.incremented # slope_params
    /\ gains = cyconstruct_gains(slope_params, labels, chunk_ts, chunk_fs)
    /\ gains # cyconstruct_gains(ret.incremented, labels, chunk_ts, chunk_fs)

\* C18: compute_js, compute_residual, apply_inv_gains, restrict_solution,
\* precompute_attributes and export_solutions leave the gains unchanged; the
\* first three also leave the parameters and the arrays they were handed
\* unchanged; on a constructed machine the gains change only in a call that
\* reconstructs them from the parameters.
C18_GainFrame ==
    [][/\ ret'.op \in {"compute_js", "compute_residual", "apply_inv_gains",
                       "restrict_solution", "precompute_attributes", "export_solutions"}
              => gains' = gains
       /\ ret'.op \in {"compute_js", "compute_residual"}
              => /\ slope_params' = slope_params
                 /\ ret'.obser = ObserInput
                 /\ ret'.model = ModelInput
       /\ ret'.op = "apply_inv_gains"
              => /\ slope_params' = slope_params
                 /\ ret'.resid = ret'.resid_in
       /\ (status = "ready" /\ gains' # gains)
              => /\ Reconstructed(ret')
                 /\ gains' = cyconstruct_gains(slope_params', labels', chunk_ts', chunk_fs')]_vars

\* restrict_solution has changed the parameters of a machine whose gains carry
\* a phase, and the gains are still those of the parameters before the call.
C18_Witness ==
    /\ ret.op = "restrict_solution"
    /\ ret.before # slope_params
    /\ gains = cyconstruct_gains(ret.before, labels, chunk_ts, chunk_fs)
    /\ gains # cyconstruct_gains(slope_params, labels, chunk_ts, chunk_fs)

\* The label map the claim gives for a slope type.
ClaimedLabelMap(type) ==
    IF type = "tf-plane" THEN [delay |-> 0, rate |-> 1, phase |-> 2]
    ELSE IF type = "f-slope" THEN [delay |-> 0, phase |-> 1]
    ELSE [rate |-> 0, phase |-> 1]

\* C19: a constructed machine has the label map of its slope type, with
\* distinct indices that are exactly 0..n_param-1 (n_param 3 for tf-plane and 2
\* otherwise), and no call changes the map.
C19_LabelMapFixed ==
    [][status' = "ready" =>
          /\ labels' = ClaimedLabelMap(slope_type')
          /\ n_param' = IF slope_type' = "tf-plane" THEN 3 ELSE 2
          /\ {labels'[l] : l \in DOMAIN labels'} = 0..(n_param' - 1)
          /\ Cardinality(DOMAIN labels') = n_param'
          /\ status = "ready" => labels' = labels]_vars

\* A tf-plane machine has imported all three components, each into its own
\* component of the parameter tensor.
C19_Witness ==
    /\ ret.op = "import_solutions"
    /\ slope_type = "tf-plane"
    /\ DOMAIN (ret.soldict) = {"phase", "delay", "rate"}
    /\ labels = [delay |-> 0, rate |-> 1, phase |-> 2]
    /\ \A l \in DOMAIN labels : Component(slope_params, labels[l]) = ret.soldict[l]

\* C20: when the rows needed exceed the rows of the grid only the first
\* max_sols solutions are shown, and plot_bandpass and plot_gain make no more
\* subplots than max_plots, nor than the nrow*ncol grid holds.
C20_SubplotsWithinGrid ==
    ret.op \in {"plot_bandpass", "plot_gain"} =>
        /\ ret.counts.rows_needed > ret.nrow =>
               /\ ret.counts.max_sols = (ret.nrow * ret.ncol) \div ret.plots_per_sol
               /\ ret.shown = ret.counts.max_sols
        /\ ret.nplot <= ret.counts.max_plots
        /\ ret.nplot <= ret.nrow * ret.ncol
        /\ ~ret.raised

\* what C13 calls a shape mismatch of an array against the defined parameter
ShapeMismatch(parmdesc, shape, slices) ==
    \/ Len(shape) # Len(parmdesc.shape)
    \/ \E i \in (DOMAIN shape) \cap (DOMAIN parmdesc.shape) :
           IF parmdesc.axis_labels[i] \in SliceAxes(slices)
           THEN \E s \in slices : /\ s[1] = parmdesc.axis_labels[i]
                                  /\ shape[i] # s[3] - s[2]
           ELSE shape[i] # parmdesc.shape[i]

\* C13: add_slice() rejects with an error, and appends nothing, whenever
\* the array's shape mismatches the defined parameter: another number of
\* axes, a non-sliced axis of another length, or a sliced axis whose length
\* differs from the length of its slice.
C13_RejectsShapeMismatch ==
    [][(/\ ret'.op = "add_slice"
        /\ ret'.name \in DOMAIN db_objs[ret'.obj].parmdescs
        /\ ShapeMismatch(db_objs[ret'.obj].parmdescs[ret'.name],
                         ret'.shape, ret'.slices))
       => /\ ret'.err # NoError
          /\ db_objs'[ret'.obj].fobj = db_objs[ret'.obj].fobj
          /\ db_disk' = db_disk]_vars

\* C14: after reload() has returned on a database opened with create(),
\* that same object is in mode "load" and holds, for every defined
\* parameter, the array rebuilt from the file.
C14_ReloadLeavesLoaded ==
    (ret.op = "reload" /\ ret.err = NoError)
    => LET self == db_objs[ret.obj]
       IN  /\ self.mode = "load"
           /\ self.has_arrays
           /\ \A name \in DOMAIN self.parmdescs :
                  /\ name \in DOMAIN self.arrays
                  /\ self.arrays[name] = _load(db_disk).arrays[name]

\* the file holds what create, define_param*, add_slice*, close wrote
DefinesThenSlices(items) ==
    \A i, j \in DOMAIN items :
        (items[i].entry = "slice" /\ items[j].entry = "parmdesc") => j < i

\* the last definition of the parameter in the file
DefinedAs(items, name) ==
    items[CHOOSE i \in DOMAIN items :
             /\ items[i].entry = "parmdesc" /\ items[i].name = name
             /\ \A j \in DOMAIN items :
                    (items[j].entry = "parmdesc" /\ items[j].name = name)
                    => j <= i]

\* the slice item covers the position idx of the parameter
Covers(item, parmdesc, idx) ==
    \A s \in item.slices :
        LET i == parmdesc.axis_index[s[1]] + 1
        IN  s[2] <= idx[i] /\ idx[i] < s[3]

\* the element of the slice item's array that was written for position idx
WrittenAt(item, parmdesc, idx) ==
    [i \in DOMAIN idx |->
        IF \E s \in item.slices : parmdesc.axis_index[s[1]] + 1 = i
        THEN idx[i] - (CHOOSE s \in item.slices :
                          parmdesc.axis_index[s[1]] + 1 = i)[2]
        ELSE idx[i]]

\* the loaded array holds at idx what C15 says: the last slice written
\* there, else the parameter's empty value
LastSliceWins(items, name, array, idx) ==
    LET parmdesc == DefinedAs(items, name)
        writers  == {k \in DOMAIN items :
                        /\ items[k].entry = "slice" /\ items[k].name = name
                        /\ Covers(items[k], parmdesc, idx)}
        last     == CHOOSE k \in writers : \A j \in writers : j <= k
        src      == WrittenAt(items[last], parmdesc, idx)
    IN  IF writers = {} THEN array.data[idx] = parmdesc.empty
        ELSE /\ src \in DOMAIN items[last].array.data
             /\ array.data[idx] = items[last].array.data[src]

\* C15: once create, define_param*, add_slice*, close have written the
\* file, load succeeds and gives every defined parameter an array of the
\* defined shape that holds the empty value where no slice was written and
\* the last written slice's value everywhere else.
C15_LoadRebuildsLastWrite ==
    (/\ ret.op = "load"
     /\ db_objs.created.mode = "closed"
     /\ DefinesThenSlices(db_disk.items))
    => /\ ret.err = NoError
       /\ \A item \in {db_disk.items[i] : i \in DOMAIN db_disk.items} :
              item.entry = "parmdesc" =>
                 /\ item.name \in DOMAIN db_objs.loaded.arrays
                 /\ LET array == db_objs.loaded.arrays[item.name]
                    IN  /\ array.shape = DefinedAs(db_disk.items, item.name).shape
                        /\ \A idx \in Indices(array.shape) :
                               LastSliceWins(db_disk.items, item.name,
                                             array, idx)

\* C16: the mode of a database object is one of create, load, closed;
\* define_param and add_slice return normally only in mode create, add_slice
\* only for a defined name; close() leaves the mode closed, and then both
\* raise and write nothing; get returns normally only in mode load; no
\* object goes from closed or load back to create.
C16_ModeStateMachine ==
    [][LET o == ret'.obj
       IN  /\ \A x \in DBObjects :
                  /\ db_objs'[x].mode \in {"unborn", "create", "load", "closed"}
                  /\ db_objs[x].mode # "unborn" => db_objs'[x].mode # "unborn"
                  /\ db_objs[x].mode \in {"closed", "load"}
                     => db_objs'[x].mode # "create"
           /\ (ret'.op = "define_param" /\ ret'.err = NoError)
              => db_objs[o].mode = "create"
           /\ (ret'.op = "add_slice" /\ ret'.err = NoError)
              => /\ db_objs[o].mode = "create"
                 /\ ret'.name \in DOMAIN db_objs[o].parmdescs
           /\ (ret'.op = "close" /\ ret'.err = NoError)
              => db_objs'[o].mode = "closed"
           /\ (ret'.op \in {"define_param", "add_slice"}
               /\ db_objs[o].mode = "closed")
              => /\ ret'.err # NoError
                 /\ db_objs'[o] = db_objs[o]
                 /\ db_disk' = db_disk
           /\ (ret'.op = "get" /\ ret'.err = NoError)
              => db_objs[o].mode = "load"]_vars

\* add_slice was refused on the closed database while a loaded one exists
C16_Witness ==
    /\ ret.op = "add_slice"
    /\ ret.err = "AssertionError"
    /\ db_objs[ret.obj].mode = "closed"
    /\ ret.name \in DOMAIN db_objs[ret.obj].parmdescs
    /\ db_objs.loaded.mode = "load"
    /\ Len(db_disk.items) = MaxRecords

\* C21: restrict_solution is idempotent.  Whatever the parameter tensor, the
\* reference antenna and the fixed directions, the tensor a call leaves is
\* the one a further call would leave, and a call that follows a
\* restriction (restrict_solution itself, or the one that ends
\* implement_update) leaves the parameters exactly as it found them.
C21_RestrictIdempotent ==
    [][ret'.op = "restrict_solution"
       => /\ Restricted(slope_params', n_param, ref_ant, fix_directions,
                        overlap_copy) = slope_params'
          /\ AfterRestrict => slope_params' = slope_params]_vars

\* restrict_solution ran on the restricted result of an update, with a
\* reference antenna, a fixed and a free direction, and parameters that are
\* not all zero
C21_Witness ==
    /\ ret.op = "restrict_solution"
    /\ nops = MaxOps
    /\ posterior_slope_error # None
    /\ ref_ant # NoRefAnt
    /\ fix_directions # {}
    /\ ret.before = slope_params
    /\ \E d \in Dirs \ fix_directions, a \in Ants \ {ref_ant} :
           slope_params[d][0][0][a][0][0][0] # RZero
====
